---------------------------- MODULE Spec2Model ----------------------------
(***************************************************************************)
(* Model of src/src/mcp_reddit/reddit_fetcher.py: the three tool           *)
(* operations fetch_user_latest_posts, fetch_reddit_hot_threads and        *)
(* fetch_reddit_post_content, the helpers _format_comment_tree,            *)
(* _get_post_type and _get_content, and the external redditwarp client as  *)
(* a nondeterministic environment.                                         *)
(*                                                                         *)
(* A Python str is modelled as a sequence of tokens: every literal piece   *)
(* of an f-string and every interpolated value is one token, "\n" is a     *)
(* token of its own, and the indentation marker of the comment formatter   *)
(* is spelled character by character.  Concatenation is \o.                *)
(***************************************************************************)
EXTENDS Integers, Sequences, FiniteSets, TLC

-----------------------------------------------------------------------------
(* Bounds of the exploration *)

\* number of tool invocations the host may have in flight at once
NumInv == 2
\* most submissions a listing yields (the `limit` argument of the listings)
MaxPosts == 2
\* most comments of a fetched comment tree
MaxNodes == 3

Inv == 1..NumInv

-----------------------------------------------------------------------------
(* Python values *)

\* Python's None, where a str is expected
None == "<None>"
NL == "\n"

\* truthiness of an optional str: None and "" are falsy
Truthy(v) == v # None /\ v # ""

\* `x or default`
OrElse(v, default) == IF Truthy(v) THEN v ELSE default

\* str(x) as an f-string applies it to an optional str: None prints as "None"
Str(v) == IF v = None THEN "None" ELSE v

\* datetime.strftime('%Y-%m-%d %H:%M:%S UTC')
Strftime(dt) == IF dt = "2024-01-02T03:04:05Z" THEN "2024-01-02 03:04:05 UTC" ELSE "1970-01-01 00:00:00 UTC"

RECURSIVE Rep(_, _)
\* s * n
Rep(s, n) == IF n <= 0 THEN <<>> ELSE s \o Rep(s, n - 1)

RECURSIVE Join(_, _)
\* sep.join(parts)
Join(sep, parts) ==
    IF parts = <<>> THEN <<>>
    ELSE IF Len(parts) = 1 THEN parts[1]
    ELSE parts[1] \o sep \o Join(sep, Tail(parts))

-----------------------------------------------------------------------------
(* What the client can return *)

SortsValid == {"new", "hot", "top"}
Sorts == SortsValid \cup {"invalid"}

username == "spez"

Sub(cls, n, author, created, body, intact) ==
    [cls |-> cls, title |-> "title-" \o n, subreddit_name |-> "sub-" \o n,
     score |-> 7, comment_count |-> 3, created_at |-> created,
     author_display_name |-> author, permalink |-> "/r/x/comments/" \o n,
     id36 |-> n, body |-> body, gallery_link |-> "https://www.reddit.com/gallery/" \o n,
     intact |-> intact]

SubLink    == Sub("LinkPost", "a1", "alice", "2024-01-02T03:04:05Z", None, TRUE)
SubText    == Sub("TextPost", "b2", None, None, "hello", TRUE)
SubGallery == Sub("GalleryPost", "c3", "carol", None, None, TRUE)
\* a variant of the library that is none of LinkPost, TextPost, GalleryPost
SubPoll    == Sub("PollPost", "d4", "", "2024-01-02T03:04:05Z", None, TRUE)
\* a payload of unexpected shape: reading its attributes raises
SubBroken  == Sub("TextPost", "e5", "eve", None, "x", FALSE)

Subs == {SubLink, SubText, SubGallery, SubPoll, SubBroken}

Comments ==
    { [author_display_name |-> "bob", score |-> 5, body |-> "first"],
      [author_display_name |-> None, score |-> 2, body |-> "second"] }

RECURSIVE ForestsOf(_)
\* the ordered forests of exactly n comment nodes
ForestsOf(n) ==
    IF n = 0 THEN { <<>> }
    ELSE UNION { { <<[value |-> c, children |-> ch]>> \o rest :
                      c \in Comments, ch \in ForestsOf(k - 1), rest \in ForestsOf(n - k) } :
                 k \in 1..n }

Forests == UNION { ForestsOf(n) : n \in 0..MaxNodes }

Faults ==
    { [type |-> "AttributeError", msg |-> "object has no attribute"],
      [type |-> "Exception", msg |-> "connection reset"] }


-----------------------------------------------------------------------------
(* Post formatter *)

\* isinstance(submission, cls): the three variants are unrelated classes
IsInstance(submission, cls) == submission.cls = cls

_get_post_type(submission) ==
    IF IsInstance(submission, "LinkPost") THEN "link"
    ELSE IF IsInstance(submission, "TextPost") THEN "text"
    ELSE IF IsInstance(submission, "GalleryPost") THEN "gallery"
    ELSE "unknown"

_get_content(submission) ==
    IF IsInstance(submission, "LinkPost") THEN submission.permalink
    ELSE IF IsInstance(submission, "TextPost") THEN submission.body
    ELSE IF IsInstance(submission, "GalleryPost") THEN Str(submission.gallery_link)
    ELSE None

\* the `created_time` local of fetch_user_latest_posts
created_time(submission) ==
    IF Truthy(submission.created_at)
    THEN <<"Posted: ", Strftime(submission.created_at), NL>>
    ELSE <<>>

\* the `post_info` f-string of fetch_user_latest_posts
user_post_info(submission) ==
    << "Title: ", submission.title, NL,
       "Subreddit: r/", submission.subreddit_name, NL,
       "Score: ", ToString(submission.score), NL,
       "Comments: ", ToString(submission.comment_count), NL >>
    \o created_time(submission) \o
    << "Type: ", _get_post_type(submission), NL,
       "Content: ", Str(_get_content(submission)), NL,
       "Link: https://reddit.com", submission.permalink, NL,
       "Post ID: ", submission.id36, NL,
       "---" >>

\* the `post_info` f-string of fetch_reddit_hot_threads
hot_post_info(submission) ==
    << "Title: ", submission.title, NL,
       "Score: ", ToString(submission.score), NL,
       "Comments: ", ToString(submission.comment_count), NL,
       "Author: ", OrElse(submission.author_display_name, "[deleted]"), NL,
       "Type: ", _get_post_type(submission), NL,
       "Content: ", Str(_get_content(submission)), NL,
       "Link: https://reddit.com", submission.permalink, NL,
       "---" >>

\* the first `content` f-string of fetch_reddit_post_content
post_content_head(submission) ==
    << "Title: ", submission.title, NL,
       "Score: ", ToString(submission.score), NL,
       "Author: ", OrElse(submission.author_display_name, "[deleted]"), NL,
       "Type: ", _get_post_type(submission), NL,
       "Content: ", Str(_get_content(submission)), NL >>

-----------------------------------------------------------------------------
(* Comment tree formatter *)

\* the literal "-- " that `indent` repeats, character by character
IndentUnit == << "-", "-", " " >>

\* a variant of indent whose unit is the two characters "--"
indent_two_characters(depth) == Rep(<< "-", "-" >>, depth)

\* line 139
indent(depth) == Rep(IndentUnit, depth)

RECURSIVE _format_comment_tree(_, _)
RECURSIVE format_children(_, _)

\* the loop `for child in comment_node.children: content += "\n" + ...`
format_children(children, depth) ==
    IF children = <<>> THEN <<>>
    ELSE <<NL>> \o _format_comment_tree(Head(children), depth + 1)
              \o format_children(Tail(children), depth)

_format_comment_tree(comment_node, depth) ==
    LET comment == comment_node.value
        content ==
            indent(depth) \o <<"* Author: ", OrElse(comment.author_display_name, "[deleted]"), NL>>
            \o indent(depth) \o <<"  Score: ", ToString(comment.score), NL>>
            \o indent(depth) \o <<"  ", comment.body, NL>>
    IN  content \o format_children(comment_node.children, depth)

RECURSIVE format_top_level(_)
\* the loop `for comment in comments.children: content += "\n" + ...`
format_top_level(children) ==
    IF children = <<>> THEN <<>>
    ELSE <<NL>> \o _format_comment_tree(Head(children), 0)
              \o format_top_level(Tail(children))

\* a variant of post_comments_part without the test of `comments.children`
post_comments_part_unconditional(children) ==
    <<NL, "Comments:", NL>> \o format_top_level(children) \o <<NL, "No comments found.">>

\* lines 176-181 of fetch_reddit_post_content
post_comments_part(children) ==
    IF children # <<>>
    THEN <<NL, "Comments:", NL>> \o format_top_level(children)
    ELSE <<NL, "No comments found.">>


-----------------------------------------------------------------------------
(* State *)

VARIABLES
    env,              \* how much the client can serve in this run: "wide" or "narrow"
    pc,               \* pc[i]: where invocation i stands
    args,             \* args[i]: the operation invoked and its `sort` argument
    submission_iter,  \* the local `submission_iter` / the listing being iterated
    yielded,          \* the submissions the listing has yielded so far
    posts,            \* the local `posts`
    submission,       \* the local `submission` of fetch_reddit_post_content
    comments,         \* the children of the local `comments` of fetch_reddit_post_content
    content,          \* the local `content` of fetch_reddit_post_content
    result,           \* the str the invocation returned
    log               \* log[i]: the client calls of invocation i and how each ended

vars == << env, pc, args, submission_iter, yielded, posts, submission, comments, content, result, log >>

\* `submission_iter = None`
NoIter == [src |-> "none", pos |-> 0]
NoSubmission == Sub("none", "none", None, None, None, FALSE)
Ok == [type |-> "ok", msg |-> ""]
Ev(call, out) == [call |-> call, out |-> out.type, msg |-> out.msg]
Issued == [type |-> "issued", msg |-> ""]

\* raised by reading an attribute the payload lacks, while formatting
ShapeFault == [type |-> "AttributeError", msg |-> "object has no attribute 'title'"]

\* a variant of user_except that loses the fault's message
user_except_without_message(e) == << "An error occurred while fetching posts for ", username >>

\* line 99
user_except(e) == << "An error occurred while fetching posts for ", username, ": ", e.msg >>
\* line 134
hot_except(e) == << "An error occurred: ", e.msg >>
\* line 186
post_except(e) == << "An error occurred: ", e.msg >>
\* a variant of user_unavailable: the search path's AttributeError left to the outer handler
user_unavailable_as_error ==
    << "An error occurred while fetching posts for ", username, ": ", "object has no attribute" >>

\* line 67
user_unavailable == << "Unable to access user posts API. RedditWarp API structure may have changed." >>
\* line 70
user_invalid_sort(sort) == << "Invalid sort method: ", sort, ". Use 'new', 'hot', or 'top'." >>
\* line 93
user_no_posts == << "No posts found for user: ", username >>
\* a variant of user_latest that announces the number asked for, not the number rendered
user_latest_of_limit(ps) ==
    << "Latest ", ToString(MaxPosts), " posts from u/", username, ":", NL, NL >> \o Join(<<NL, NL>>, ps)

\* line 95
user_latest(ps) ==
    << "Latest ", ToString(Len(ps)), " posts from u/", username, ":", NL, NL >> \o Join(<<NL, NL>>, ps)
\* a variant of hot_joined with the not-found sentence of fetch_user_latest_posts
hot_joined_or_notice(ps) == IF ps = <<>> THEN << "No posts found" >> ELSE Join(<<NL, NL>>, ps)

\* line 130
hot_joined(ps) == Join(<<NL, NL>>, ps)

\* what the client serves: any content, or one text post with one comment
Wide == [subs |-> Subs, forests |-> Forests, faults |-> Faults, limit |-> MaxPosts]

Narrow ==
    [subs |-> {SubText}, faults |-> {CHOOSE f \in Faults : f.type = "Exception"},
     forests |-> { << [value |-> CHOOSE c \in Comments : c.author_display_name = None,
                       children |-> <<>>] >> },
     limit |-> 1]

Env == IF env = "wide" THEN Wide ELSE Narrow

\* one slot over any content
InitSolo ==
    /\ env = "wide"
    /\ pc = [i \in Inv |-> IF i = 1 THEN "idle" ELSE "off"]

\* NumInv slots sharing the client, over a small content
InitShared ==
    /\ env = "narrow"
    /\ pc = [i \in Inv |-> "idle"]

Init ==
    /\ InitSolo \/ InitShared
    /\ args = [i \in Inv |-> [op |-> "none", sort |-> "new"]]
    /\ submission_iter = [i \in Inv |-> NoIter]
    /\ yielded = [i \in Inv |-> <<>>]
    /\ posts = [i \in Inv |-> <<>>]
    /\ submission = [i \in Inv |-> NoSubmission]
    /\ comments = [i \in Inv |-> <<>>]
    /\ content = [i \in Inv |-> <<>>]
    /\ result = [i \in Inv |-> <<>>]
    /\ log = [i \in Inv |-> <<>>]

Goto(i, l) == pc' = [pc EXCEPT ![i] = l]
Return(i, text) == result' = [result EXCEPT ![i] = text] /\ Goto(i, "returned")
Log(i, ev) == log' = [log EXCEPT ![i] = Append(@, ev)]
Outcomes == {Ok} \cup Env.faults

-----------------------------------------------------------------------------
(* fetch_user_latest_posts *)

Invoke_user(i) ==
    /\ pc[i] = "idle"
    /\ \E sort \in Sorts : args' = [args EXCEPT ![i] = [op |-> "user", sort |-> sort]]
    /\ Goto(i, "method1")
    /\ UNCHANGED << env, submission_iter, yielded, posts, submission, comments, content, result, log >>

\* one `try: ... except AttributeError: pass` block over an access path
TryPath(i, path, out, next) ==
    /\ Log(i, Ev(path, out))
    /\ IF out.type = "ok"
       THEN /\ submission_iter' = [submission_iter EXCEPT ![i] = [src |-> path, pos |-> 0]]
            /\ Goto(i, next)
            /\ UNCHANGED result
       ELSE IF out.type = "AttributeError"
       THEN /\ Goto(i, next)
            /\ UNCHANGED << submission_iter, result >>
       ELSE /\ Return(i, user_except(out))
            /\ UNCHANGED submission_iter

\* lines 38-47
user_Method1(i) ==
    /\ pc[i] = "method1"
    /\ IF args[i].sort \in SortsValid
       THEN \E out \in Outcomes : TryPath(i, "user", out, "method2")
       ELSE Goto(i, "method2") /\ UNCHANGED << submission_iter, result, log >>
    /\ UNCHANGED << env, args, yielded, posts, submission, comments, content >>

\* a variant of user_Method2 without the test `if submission_iter is None`
user_Method2_unguarded(i) ==
    /\ pc[i] = "method2"
    /\ IF args[i].sort \in SortsValid
       THEN \E out \in Outcomes : TryPath(i, "account", out, "method3")
       ELSE Goto(i, "method3") /\ UNCHANGED << submission_iter, result, log >>
    /\ UNCHANGED << env, args, yielded, posts, submission, comments, content >>

\* lines 49-59
user_Method2(i) ==
    /\ pc[i] = "method2"
    /\ IF submission_iter[i] = NoIter /\ args[i].sort \in SortsValid
       THEN \E out \in Outcomes : TryPath(i, "account", out, "method3")
       ELSE Goto(i, "method3") /\ UNCHANGED << submission_iter, result, log >>
    /\ UNCHANGED << env, args, yielded, posts, submission, comments, content >>

\* lines 69-70, reached with whatever the three methods left in submission_iter
CheckIter(i) ==
    IF submission_iter'[i] = NoIter
    THEN Return(i, user_invalid_sort(args[i].sort))
    ELSE Goto(i, "iterate") /\ UNCHANGED result

\* lines 61-70
user_Method3(i) ==
    /\ pc[i] = "method3"
    /\ IF submission_iter[i] = NoIter
       THEN \E out \in Outcomes :
              /\ Log(i, Ev("search", out))
              /\ IF out.type = "ok"
                 THEN /\ submission_iter' = [submission_iter EXCEPT ![i] = [src |-> "search", pos |-> 0]]
                      /\ CheckIter(i)
                 ELSE IF out.type = "AttributeError"
                 THEN Return(i, user_unavailable) /\ UNCHANGED submission_iter
                 ELSE Return(i, user_except(out)) /\ UNCHANGED submission_iter
       ELSE UNCHANGED << submission_iter, log >> /\ CheckIter(i)
    /\ UNCHANGED << env, args, yielded, posts, submission, comments, content >>

\* lines 72-90, one round of `async for` that yields a submission
user_Yield(i) ==
    /\ pc[i] = "iterate" /\ args[i].op = "user"
    /\ submission_iter[i].pos < Env.limit
    /\ \E s \in Env.subs :
         /\ submission_iter' = [submission_iter EXCEPT ![i].pos = @ + 1]
         /\ yielded' = [yielded EXCEPT ![i] = Append(@, s)]
         /\ IF s.intact
            THEN /\ posts' = [posts EXCEPT ![i] = Append(@, user_post_info(s))]
                 /\ Log(i, Ev("next", Ok))
                 /\ UNCHANGED << pc, result >>
            ELSE /\ Log(i, Ev("format", ShapeFault))
                 /\ Return(i, user_except(ShapeFault))
                 /\ UNCHANGED posts
    /\ UNCHANGED << env, args, submission, comments, content >>

\* line 72, an advance of the listing that raises
user_AdvanceFault(i) ==
    /\ pc[i] = "iterate" /\ args[i].op = "user"
    /\ \E e \in Env.faults :
         /\ Log(i, Ev("next", e))
         /\ Return(i, user_except(e))
    /\ UNCHANGED << env, args, submission_iter, yielded, posts, submission, comments, content >>

\* lines 72 and 92-95, the listing is exhausted
user_Finish(i) ==
    /\ pc[i] = "iterate" /\ args[i].op = "user"
    /\ Log(i, Ev("next", [type |-> "stop", msg |-> ""]))
    /\ Return(i, IF posts[i] = <<>> THEN user_no_posts ELSE user_latest(posts[i]))
    /\ UNCHANGED << env, args, submission_iter, yielded, posts, submission, comments, content >>

-----------------------------------------------------------------------------
(* fetch_reddit_hot_threads *)

Invoke_hot(i) ==
    /\ pc[i] = "idle"
    /\ args' = [args EXCEPT ![i] = [op |-> "hot", sort |-> "hot"]]
    /\ Goto(i, "hot_call")
    /\ UNCHANGED << env, submission_iter, yielded, posts, submission, comments, content, result, log >>

\* line 117, the call client.p.subreddit.pull.hot(subreddit, limit)
hot_Call(i) ==
    /\ pc[i] = "hot_call"
    /\ \E out \in Outcomes :
         /\ Log(i, Ev("hot", out))
         /\ IF out.type = "ok"
            THEN /\ submission_iter' = [submission_iter EXCEPT ![i] = [src |-> "hot", pos |-> 0]]
                 /\ Goto(i, "iterate")
                 /\ UNCHANGED result
            ELSE Return(i, hot_except(out)) /\ UNCHANGED submission_iter
    /\ UNCHANGED << env, args, yielded, posts, submission, comments, content >>

\* lines 117-128, one round of `async for` that yields a submission
hot_Yield(i) ==
    /\ pc[i] = "iterate" /\ args[i].op = "hot"
    /\ submission_iter[i].pos < Env.limit
    /\ \E s \in Env.subs :
         /\ submission_iter' = [submission_iter EXCEPT ![i].pos = @ + 1]
         /\ yielded' = [yielded EXCEPT ![i] = Append(@, s)]
         /\ IF s.intact
            THEN /\ posts' = [posts EXCEPT ![i] = Append(@, hot_post_info(s))]
                 /\ Log(i, Ev("next", Ok))
                 /\ UNCHANGED << pc, result >>
            ELSE /\ Log(i, Ev("format", ShapeFault))
                 /\ Return(i, hot_except(ShapeFault))
                 /\ UNCHANGED posts
    /\ UNCHANGED << env, args, submission, comments, content >>

\* line 117, an advance of the listing that raises
hot_AdvanceFault(i) ==
    /\ pc[i] = "iterate" /\ args[i].op = "hot"
    /\ \E e \in Env.faults :
         /\ Log(i, Ev("next", e))
         /\ Return(i, hot_except(e))
    /\ UNCHANGED << env, args, submission_iter, yielded, posts, submission, comments, content >>

\* lines 117 and 130, the listing is exhausted
hot_Finish(i) ==
    /\ pc[i] = "iterate" /\ args[i].op = "hot"
    /\ Log(i, Ev("next", [type |-> "stop", msg |-> ""]))
    /\ Return(i, hot_joined(posts[i]))
    /\ UNCHANGED << env, args, submission_iter, yielded, posts, submission, comments, content >>

-----------------------------------------------------------------------------
(* fetch_reddit_post_content *)

\* a variant of Invoke_post that starts both fetches together
Invoke_post_gather(i) ==
    /\ pc[i] = "idle"
    /\ args' = [args EXCEPT ![i] = [op |-> "post", sort |-> "top"]]
    /\ log' = [log EXCEPT ![i] = @ \o << Ev("submission.fetch", Issued),
                                          Ev("comment_tree.fetch", Issued) >>]
    /\ Goto(i, "await_submission")
    /\ UNCHANGED << env, submission_iter, yielded, posts, submission, comments, content, result >>

\* line 165, up to the suspension of `await client.p.submission.fetch(post_id)`
Invoke_post(i) ==
    /\ pc[i] = "idle"
    /\ args' = [args EXCEPT ![i] = [op |-> "post", sort |-> "top"]]
    /\ Log(i, Ev("submission.fetch", Issued))
    /\ Goto(i, "await_submission")
    /\ UNCHANGED << env, submission_iter, yielded, posts, submission, comments, content, result >>

\* lines 165-175: the submission arrives, is formatted, and the comment tree is asked for
post_SubmissionFetched(i) ==
    /\ pc[i] = "await_submission"
    /\ \E s \in Env.subs :
         /\ submission' = [submission EXCEPT ![i] = s]
         /\ IF s.intact
            THEN /\ content' = [content EXCEPT ![i] = post_content_head(s)]
                 /\ log' = [log EXCEPT ![i] = @ \o << Ev("submission.fetch", Ok),
                                                       Ev("comment_tree.fetch", Issued) >>]
                 /\ Goto(i, "await_comments")
                 /\ UNCHANGED result
            ELSE /\ log' = [log EXCEPT ![i] = @ \o << Ev("submission.fetch", Ok),
                                                       Ev("format", ShapeFault) >>]
                 /\ Return(i, post_except(ShapeFault))
                 /\ UNCHANGED content
    /\ UNCHANGED << env, args, submission_iter, yielded, posts, comments >>

\* line 165, the submission fetch raises
post_SubmissionFault(i) ==
    /\ pc[i] = "await_submission"
    /\ \E e \in Env.faults :
         /\ Log(i, Ev("submission.fetch", e))
         /\ Return(i, post_except(e))
    /\ UNCHANGED << env, args, submission_iter, yielded, posts, submission, comments, content >>

\* lines 175-183: the comment tree arrives and is rendered
post_CommentsFetched(i) ==
    /\ pc[i] = "await_comments"
    /\ \E children \in Env.forests :
         /\ comments' = [comments EXCEPT ![i] = children]
         /\ content' = [content EXCEPT ![i] = @ \o post_comments_part(children)]
         /\ Log(i, Ev("comment_tree.fetch", Ok))
         /\ Return(i, content'[i])
    /\ UNCHANGED << env, args, submission_iter, yielded, posts, submission >>

\* line 175, the comment-tree fetch raises
post_CommentsFault(i) ==
    /\ pc[i] = "await_comments"
    /\ \E e \in Env.faults :
         /\ Log(i, Ev("comment_tree.fetch", e))
         /\ Return(i, post_except(e))
    /\ UNCHANGED << env, args, submission_iter, yielded, posts, submission, comments, content >>

-----------------------------------------------------------------------------

Next ==
    \E i \in Inv :
        \/ Invoke_user(i)
        \/ user_Method1(i)
        \/ user_Method2(i)
        \/ user_Method3(i)
        \/ user_Yield(i)
        \/ user_AdvanceFault(i)
        \/ user_Finish(i)
        \/ Invoke_hot(i)
        \/ hot_Call(i)
        \/ hot_Yield(i)
        \/ hot_AdvanceFault(i)
        \/ hot_Finish(i)
        \/ Invoke_post(i)
        \/ post_SubmissionFetched(i)
        \/ post_SubmissionFault(i)
        \/ post_CommentsFetched(i)
        \/ post_CommentsFault(i)

Spec == Init /\ [][Next]_vars


-----------------------------------------------------------------------------
(* Reading a returned text *)

Ended(i) == pc[i] = "returned"
FaultTypes == {"AttributeError", "Exception"}
Paths == {"user", "account", "search"}
LastEvent(i) == log[i][Len(log[i])]

\* the number of tokens of text equal to tok
Count(text, tok) == Cardinality({ p \in DOMAIN text : text[p] = tok })

StartsWith(text, prefix) ==
    Len(text) >= Len(prefix) /\ SubSeq(text, 1, Len(prefix)) = prefix

EndsWith(text, suffix) ==
    Len(text) >= Len(suffix) /\ SubSeq(text, Len(text) - Len(suffix) + 1, Len(text)) = suffix

RECURSIVE ValuesAfter(_, _)
\* the tokens that follow each occurrence of label, in order
ValuesAfter(text, label) ==
    IF Len(text) < 2 THEN <<>>
    ELSE IF Head(text) = label THEN <<text[2]>> \o ValuesAfter(Tail(text), label)
    ELSE ValuesAfter(Tail(text), label)

RECURSIVE SplitLines(_, _)
\* the lines of text; cur is the line being read
SplitLines(text, cur) ==
    IF text = <<>> THEN (IF cur = <<>> THEN <<>> ELSE <<cur>>)
    ELSE IF Head(text) = NL THEN <<cur>> \o SplitLines(Tail(text), <<>>)
    ELSE SplitLines(Tail(text), Append(cur, Head(text)))

Lines(text) == SplitLines(text, <<>>)

\* the lines that follow the first line equal to `line`
LinesAfter(ls, line) ==
    LET at == { p \in DOMAIN ls : ls[p] = line }
    IN  IF at = {} THEN <<>>
        ELSE LET p == CHOOSE q \in at : \A r \in at : q <= r
             IN  SubSeq(ls, p + 1, Len(ls))

RECURSIVE PreOrder(_, _)
\* the nodes of a forest in pre-order, each with its depth
PreOrder(forest, depth) ==
    IF forest = <<>> THEN <<>>
    ELSE << [depth |-> depth, value |-> Head(forest).value] >>
         \o PreOrder(Head(forest).children, depth + 1)
         \o PreOrder(Tail(forest), depth)

RECURSIVE Flat(_)
\* the concatenation of a sequence of sequences
Flat(ss) == IF ss = <<>> THEN <<>> ELSE Head(ss) \o Flat(Tail(ss))

\* a text of the form "An error occurred ...: <message>"
ErrorForm(text, msg) ==
    \/ text = << "An error occurred: ", msg >>
    \/ text = << "An error occurred while fetching posts for ", username, ": ", msg >>

\* a fault that the fallback chain of fetch_user_latest_posts takes as capability-not-found
CapabilityProbe(ev) == ev.call \in Paths /\ ev.out = "AttributeError"


-----------------------------------------------------------------------------
(* C1 *)

\* C1 as stated: whenever a fault was raised at any step of an invocation, the
\* obtaining of the submission sequence included, the invocation ends by
\* returning "An error occurred ...: <message>" for that fault.
C1_EveryFaultEndsInErrorText ==
    \A i \in Inv :
        (Ended(i) /\ \E k \in DOMAIN log[i] : log[i][k].out \in FaultTypes) =>
            \E k \in DOMAIN log[i] :
                log[i][k].out \in FaultTypes /\ ErrorForm(result[i], log[i][k].msg)

\* C1 amended: a fault other than an AttributeError raised by one of the three
\* access paths of fetch_user_latest_posts ends the invocation at once, with the
\* text "An error occurred ...: <message>" returned; an AttributeError of an
\* access path is taken by the fallback chain instead; no invocation is left
\* with a fault that was not turned into a returned text.
C1_FaultsOutsideFallbackEndInErrorText ==
    \A i \in Inv :
        \A k \in DOMAIN log[i] :
            (log[i][k].out \in FaultTypes /\ ~CapabilityProbe(log[i][k])) =>
                /\ k = Len(log[i])
                /\ Ended(i)
                /\ ErrorForm(result[i], log[i][k].msg)

\* a listing faulted on an advance after a post was rendered, a submission fetch
\* faulted, a comment-tree fetch faulted, and formatting faulted
C1_Witness ==
    \E i \in Inv :
        /\ Ended(i) /\ args[i].op = "user" /\ posts[i] # <<>>
        /\ LastEvent(i).call = "next" /\ LastEvent(i).out \in FaultTypes
        /\ ErrorForm(result[i], LastEvent(i).msg)

-----------------------------------------------------------------------------
(* C2 *)

\* C2 as stated: with a sort outside {new, hot, top}, fetch_user_latest_posts
\* calls no access path of the client and returns "Invalid sort method: <sort>."
C2_InvalidSortFailsBeforeAnyCall ==
    \A i \in Inv :
        (args[i].op = "user" /\ args[i].sort \notin SortsValid) =>
            /\ \A k \in DOMAIN log[i] : log[i][k].call \notin Paths
            /\ Ended(i) => StartsWith(result[i], << "Invalid sort method: ", args[i].sort >>)


-----------------------------------------------------------------------------
(* C3 *)

\* the positions of log[i] at which `path` was called with outcome `out`
At(i, path, out) == { k \in DOMAIN log[i] : log[i][k].call = path /\ log[i][k].out = out }
Called(i, path) == { k \in DOMAIN log[i] : log[i][k].call = path }

\* C3: with a valid sort the access paths are tried in the order user, account,
\* search; account only after user raised capability-not-found, search only
\* after both did; when both did, search is tried before the operation goes on
\* or gives up; and the listing iterated is that of the first path that did
\* not raise.
C3_FallbackOrder ==
    \A i \in Inv :
        (args[i].op = "user" /\ args[i].sort \in SortsValid) =>
            /\ \A k \in Called(i, "account") :
                   \E j \in At(i, "user", "AttributeError") : j < k
            /\ \A k \in Called(i, "search") :
                   \E j \in At(i, "user", "AttributeError") :
                       \E m \in At(i, "account", "AttributeError") : j < m /\ m < k
            /\ \A path \in Paths : Cardinality(Called(i, path)) <= 1
            /\ ( /\ At(i, "user", "AttributeError") # {}
                 /\ At(i, "account", "AttributeError") # {}
                 /\ pc[i] \in {"iterate", "returned"} )
               => Called(i, "search") # {}
            /\ submission_iter[i] # NoIter =>
                   /\ At(i, submission_iter[i].src, "ok") # {}
                   /\ \A path \in Paths \ {submission_iter[i].src} : At(i, path, "ok") = {}
            /\ yielded[i] # <<>> => submission_iter[i] # NoIter
            /\ pc[i] = "iterate" => submission_iter[i] # NoIter

\* both the user and the account path raised capability-not-found, search
\* answered, and a post of its listing was rendered
C3_Witness ==
    \E i \in Inv :
        /\ args[i].op = "user" /\ args[i].sort \in SortsValid /\ Ended(i)
        /\ At(i, "user", "AttributeError") # {} /\ At(i, "account", "AttributeError") # {}
        /\ At(i, "search", "ok") # {}
        /\ submission_iter[i].src = "search" /\ posts[i] # <<>>

-----------------------------------------------------------------------------
(* C4 *)

\* C4: when all three access paths raise capability-not-found, the invocation
\* returns the text saying the user posts API cannot be accessed, and no
\* submission was iterated or rendered.
C4_AllPathsUnavailable ==
    \A i \in Inv :
        ( /\ args[i].op = "user"
          /\ \A path \in Paths : At(i, path, "AttributeError") # {} )
        => /\ Ended(i)
           /\ result[i] = << "Unable to access user posts API. RedditWarp API structure may have changed." >>
           /\ \A k \in DOMAIN log[i] : ~ErrorForm(result[i], log[i][k].msg)
           /\ ~ StartsWith(result[i], << "Invalid sort method: " >>)
           /\ yielded[i] = <<>> /\ posts[i] = <<>>
           /\ Called(i, "next") = {}

C4_Witness ==
    \E i \in Inv :
        /\ args[i].op = "user" /\ Ended(i)
        /\ \A path \in Paths : At(i, path, "AttributeError") # {}

-----------------------------------------------------------------------------
(* C5 *)

\* the listing was obtained and ran to its end without a fault
FaultFree(i) ==
    /\ Ended(i) /\ submission_iter[i] # NoIter
    /\ LastEvent(i).call = "next" /\ LastEvent(i).out = "stop"

\* the positions of the separator tokens of a joined listing are the ends of its blocks
SeparatorsCloseBlocks(text) ==
    \A p \in DOMAIN text :
        text[p] = "---" => (p = Len(text) \/ (text[p + 1] = NL /\ text[p + 2] = NL))

\* C5: with a valid sort and a fault-free listing of k submissions,
\* fetch_user_latest_posts returns exactly "No posts found for user: <username>"
\* when k = 0, and otherwise a text that starts with "Latest k posts from
\* u/<username>:" and holds one "---" separator per submission, the blocks in
\* the order yielded.
C5_UserListing ==
    \A i \in Inv :
        (args[i].op = "user" /\ args[i].sort \in SortsValid /\ FaultFree(i)) =>
            LET k == Len(yielded[i])
            IN  IF k = 0
                THEN result[i] = << "No posts found for user: ", username >>
                ELSE /\ StartsWith(result[i], << "Latest ", ToString(k), " posts from u/", username, ":" >>)
                     /\ Count(result[i], "---") = k
                     /\ SeparatorsCloseBlocks(result[i])
                     /\ ValuesAfter(result[i], "Post ID: ") = [j \in 1..k |-> yielded[i][j].id36]
                     /\ ValuesAfter(result[i], "Title: ") = [j \in 1..k |-> yielded[i][j].title]

\* two different submissions were yielded and rendered
C5_Witness ==
    \E i \in Inv :
        /\ args[i].op = "user" /\ args[i].sort \in SortsValid /\ FaultFree(i)
        /\ Len(yielded[i]) >= 2 /\ yielded[i][1] # yielded[i][2]

\* the listing of a valid sort was empty
C5_WitnessEmpty ==
    \E i \in Inv :
        /\ args[i].op = "user" /\ args[i].sort = "top" /\ FaultFree(i)
        /\ yielded[i] = <<>>


-----------------------------------------------------------------------------
(* C6 *)

PostTypes == {"link", "text", "gallery", "unknown"}

\* the positions of a returned text at which a post's "Type: " field starts;
\* the field is followed by the type, a newline, "Content: " and the content
TypeFields(text) == { p \in DOMAIN text : text[p] = "Type: " }

\* C6 as stated: every rendered submission carries exactly one of the types
\* link, text, gallery, unknown, and a submission of an unrecognized variant
\* renders "unknown" with nothing after "Content: ", in all three operations.
C6_UnknownRendersEmptyContent ==
    \A i \in Inv :
        Ended(i) =>
            \A p \in TypeFields(result[i]) :
                /\ result[i][p + 1] \in PostTypes
                /\ result[i][p + 3] = "Content: "
                /\ result[i][p + 1] = "unknown" => result[i][p + 4] = ""

-----------------------------------------------------------------------------
(* C7 *)

\* the comment tree of a fetch_reddit_post_content invocation arrived
CommentsArrived(i) ==
    /\ args[i].op = "post" /\ Ended(i)
    /\ LastEvent(i).call = "comment_tree.fetch" /\ LastEvent(i).out = "ok"

\* the lines of the result below its "Comments:" line
CommentLines(i) == LinesAfter(Lines(result[i]), << "Comments:" >>)

\* the positions of the comment lines that start a block at depth 0
TopLevelStarts(i) ==
    { q \in DOMAIN CommentLines(i) :
        CommentLines(i)[q] # <<>> /\ CommentLines(i)[q][1] = "* Author: " }

\* the q of S with exactly n - 1 members of S below it
Nth(S, n) == CHOOSE q \in S : Cardinality({ r \in S : r < q }) = n - 1

\* C7: when both fetches succeed, a comment tree with no top-level child makes
\* the result end with "No comments found." and hold no "Comments:" section;
\* otherwise the result holds "Comments:" followed by one block per top-level
\* comment, in tree order, each starting with "* Author: " and no leading
\* dash, and "No comments found." is not appended.
C7_CommentsSection ==
    \A i \in Inv :
        CommentsArrived(i) =>
            IF comments[i] = <<>>
            THEN /\ EndsWith(result[i], << "No comments found." >>)
                 /\ Count(result[i], "Comments:") = 0
            ELSE /\ Count(result[i], "Comments:") = 1
                 /\ Count(result[i], "No comments found.") = 0
                 /\ Cardinality(TopLevelStarts(i)) = Len(comments[i])
                 /\ \A n \in DOMAIN comments[i] :
                        LET q == Nth(TopLevelStarts(i), n)
                            c == comments[i][n].value
                        IN  /\ CommentLines(i)[q] =
                                   << "* Author: ", OrElse(c.author_display_name, "[deleted]") >>
                            /\ CommentLines(i)[q + 2] = << "  ", c.body >>

\* two different top-level comments, one of them with a reply
C7_Witness ==
    \E i \in Inv :
        /\ CommentsArrived(i) /\ Len(comments[i]) = 2
        /\ comments[i][1].value # comments[i][2].value
        /\ comments[i][1].children # <<>>

C7_WitnessNoComments ==
    \E i \in Inv : CommentsArrived(i) /\ comments[i] = <<>>

-----------------------------------------------------------------------------
(* C8 *)

\* C8: with a fault-free hot listing of k submissions, fetch_reddit_hot_threads
\* returns the empty string when k = 0 and otherwise a text with exactly k
\* "---" separators, one per submission, in the order yielded.
C8_HotListing ==
    \A i \in Inv :
        (args[i].op = "hot" /\ FaultFree(i)) =>
            LET k == Len(yielded[i])
            IN  IF k = 0
                THEN result[i] = <<>>
                ELSE /\ Count(result[i], "---") = k
                     /\ SeparatorsCloseBlocks(result[i])
                     /\ ValuesAfter(result[i], "Title: ") = [j \in 1..k |-> yielded[i][j].title]

C8_Witness ==
    \E i \in Inv :
        /\ args[i].op = "hot" /\ FaultFree(i)
        /\ Len(yielded[i]) >= 2 /\ yielded[i][1] # yielded[i][2]

C8_WitnessEmpty ==
    \E i \in Inv : args[i].op = "hot" /\ FaultFree(i) /\ yielded[i] = <<>>

-----------------------------------------------------------------------------
(* C9 *)

Chars == {"-", " ", "*"}

\* the lines a node renders to when `marker` is what its depth repeats: a
\* blank line before it, then author, score and body
BlockOf(marker, node) ==
    LET prefix == Rep(marker, node.depth)
        c == node.value
    IN  << <<>>,
           prefix \o << "* Author: ", OrElse(c.author_display_name, "[deleted]") >>,
           prefix \o << "  Score: ", ToString(c.score) >>,
           prefix \o << "  ", c.body >> >>

\* the comment lines are the blocks of the tree's nodes in pre-order
RendersPreOrder(i, marker) ==
    LET nodes == PreOrder(comments[i], 0)
    IN  CommentLines(i) = Flat([n \in DOMAIN nodes |-> BlockOf(marker, nodes[n])])

\* C9 as stated: the comment tree is rendered depth-first in pre-order, one
\* three-line block per node, each line of a node at depth d prefixed by d
\* repetitions of a fixed two-character marker, each child block preceded by a
\* blank line.
C9_TwoCharacterMarker ==
    \E marker \in [1..2 -> Chars] :
        \A i \in Inv : (CommentsArrived(i) /\ comments[i] # <<>>) => RendersPreOrder(i, marker)

\* C9 amended: the same, the marker being the three characters "-- " (two
\* dashes and a space).
C9_PreOrderRendering ==
    \A i \in Inv :
        (CommentsArrived(i) /\ comments[i] # <<>>) => RendersPreOrder(i, << "-", "-", " " >>)

\* a tree with a node at depth 1 that has a sibling after it
C9_Witness ==
    \E i \in Inv :
        /\ CommentsArrived(i) /\ Len(comments[i]) = 1
        /\ Len(comments[i][1].children) = 2

\* a tree with a node at depth 2
C9_WitnessDeep ==
    \E i \in Inv :
        /\ CommentsArrived(i) /\ comments[i] # <<>>
        /\ comments[i][1].children # <<>>
        /\ comments[i][1].children[1].children # <<>>

-----------------------------------------------------------------------------
(* C10 *)

Fetches == {"submission.fetch", "comment_tree.fetch"}

\* the fetches of invocation i that were issued and have not completed
Outstanding(i) ==
    Cardinality({ k \in DOMAIN log[i] : log[i][k].call \in Fetches /\ log[i][k].out = "issued" })
    - Cardinality({ k \in DOMAIN log[i] : log[i][k].call \in Fetches /\ log[i][k].out # "issued" })

\* C10: in every interleaving of the invocations, an invocation of
\* fetch_reddit_post_content has at most one fetch outstanding, issues the
\* comment-tree fetch only after its submission fetch completed successfully,
\* and never issues it when the submission fetch faulted.
C10_FetchesSequential ==
    \A i \in Inv :
        args[i].op = "post" =>
            /\ Outstanding(i) \in {0, 1}
            /\ \A k \in At(i, "comment_tree.fetch", "issued") :
                   \E j \in At(i, "submission.fetch", "ok") : j < k
            /\ (\E k \in Called(i, "submission.fetch") : log[i][k].out \in FaultTypes)
                   => Called(i, "comment_tree.fetch") = {}
            /\ pc[i] = "await_submission" <=>
                   (Outstanding(i) = 1 /\ LastEvent(i).call = "submission.fetch")
            /\ pc[i] = "await_comments" <=>
                   (Outstanding(i) = 1 /\ LastEvent(i).call = "comment_tree.fetch")

\* a comment-tree fetch is outstanding while another invocation awaits its own fetch
C10_Witness ==
    \E i, j \in Inv :
        /\ i # j
        /\ args[i].op = "post" /\ pc[i] = "await_comments"
        /\ args[j].op = "post" /\ pc[j] = "await_submission"

=============================================================================
